---- MODULE Spec2Model ----
(***************************************************************************)
(* Model of computeSales.py: load two JSON documents, build a title->price *)
(* catalogue, fold the sale records into a total, print the report and     *)
(* write it to SalesResults.txt.                                           *)
(*                                                                         *)
(* Python floats are modelled by exact integers (no rounding); a string is *)
(* a sequence of one-character strings; a JSON value is a tagged record.   *)
(* dict.get returns None both for an absent key and for a JSON null, so    *)
(* both are the one value Null.                                            *)
(***************************************************************************)
EXTENDS Integers, Sequences, FiniteSets, TLC

\* Longest product array drawn for create_price_catalogue.
MaxProducts == 2
\* Longest sale array drawn for compute_total_sales.
MaxSales == 2
\* Longest array held by an input file in a run of main.
MaxFileItems == 1

-----------------------------------------------------------------------------
\* JSON values as Python sees them after json.load

Null == [t |-> "null", n |-> 0, s |-> <<>>]
Num(i) == [t |-> "num", n |-> i, s |-> <<>>]
Str(chars) == [t |-> "str", n |-> 0, s |-> chars]
\* A non-empty JSON array or object used as a field value: truthy, unhashable.
List == [t |-> "list", n |-> 0, s |-> <<>>]

\* The float and exception results of an expression.
Ok(v) == [exc |-> "none", val |-> v]
Raise(e) == [exc |-> e, val |-> 0]

\* Python truthiness (`if title`, `not product_name`).
Truthy(v) ==
  CASE v.t = "null" -> FALSE
    [] v.t = "num" -> v.n # 0
    [] v.t = "str" -> v.s # <<>>
    [] v.t = "list" -> TRUE

\* Whether a value can be a dict key (`catalogue[title] = ...`, `in`).
Hashable(v) == v.t # "list"

Digits == <<"0", "1", "2", "3", "4", "5", "6", "7", "8", "9">>

IsDigit(c) == \E i \in 1..Len(Digits) : Digits[i] = c

DigitVal(c) == (CHOOSE i \in 1..Len(Digits) : Digits[i] = c) - 1

RECURSIVE StripLeft(_)
StripLeft(s) ==
  IF s # <<>> /\ Head(s) = " " THEN StripLeft(Tail(s)) ELSE s

RECURSIVE StripRight(_)
StripRight(s) ==
  IF s # <<>> /\ s[Len(s)] = " " THEN StripRight(SubSeq(s, 1, Len(s) - 1)) ELSE s

RECURSIVE DigitsValue(_, _)
DigitsValue(s, acc) ==
  IF s = <<>> THEN acc ELSE DigitsValue(Tail(s), 10 * acc + DigitVal(Head(s)))

\* Mutant of FloatOfString: the sign is read and dropped.
FloatOfString_Unsigned(s) ==
  LET body == StripRight(StripLeft(s))
      signed == body # <<>> /\ Head(body) \in {"-", "+"}
      digits == IF signed THEN Tail(body) ELSE body
  IN  IF digits = <<>> \/ \E i \in 1..Len(digits) : ~IsDigit(digits[i])
        THEN Raise("ValueError")
        ELSE Ok(DigitsValue(digits, 0))

\* float(str): surrounding blanks are stripped, then an optional sign and a
\* non-empty run of decimal digits; anything else is a ValueError.
FloatOfString(s) ==
  LET body == StripRight(StripLeft(s))
      signed == body # <<>> /\ Head(body) \in {"-", "+"}
      digits == IF signed THEN Tail(body) ELSE body
  IN  IF digits = <<>> \/ \E i \in 1..Len(digits) : ~IsDigit(digits[i])
        THEN Raise("ValueError")
        ELSE Ok((IF signed /\ Head(body) = "-" THEN -1 ELSE 1) * DigitsValue(digits, 0))

\* float(quantity)
Float(v) ==
  CASE v.t = "num" -> Ok(v.n)
    [] v.t = "str" -> FloatOfString(v.s)
    [] v.t = "list" -> Raise("TypeError")
    [] v.t = "null" -> Raise("TypeError")

\* price * quantity, quantity a float
Multiply(price, quantity) ==
  IF price.t = "num" THEN Ok(price.n * quantity) ELSE Raise("TypeError")

-----------------------------------------------------------------------------
\* Console output

NoSale == [isdict |-> FALSE, Product |-> Null, Quantity |-> Null]

\* The report block: a function of the total and of the elapsed time.
Report(total, elapsed) == [kind |-> "report", total |-> total, elapsed |-> elapsed]

NoText == [kind |-> "none", total |-> 0, elapsed |-> 0]

\* Text that is in SalesResults.txt before the run.
OldText == [kind |-> "old", total |-> 0, elapsed |-> 0]

\* One printed line (or block): its kind, the sale record it names, its text.
Msg(kind, sale) == [kind |-> kind, sale |-> sale, text |-> NoText]

ReportMsg(text) == [kind |-> "report", sale |-> NoSale, text |-> text]

-----------------------------------------------------------------------------
\* Input domains

Titles == {Null, Str(<<>>), Str(<<"A">>), Str(<<"B">>), List}

Prices == {Null, Num(0), Num(2), Str(<<"x">>)}

Products == {Null, Str(<<>>), Str(<<"A">>), Str(<<"B">>), List}

\* JSON true and false are left out: float() reads them as 1.0 and 0.0.
Quantities ==
  {Null, Num(0), Num(2), Str(<<"2">>), Str(<<"-", "1">>), Str(<<"a">>), List}

\* An array element that is no JSON object (a number, say): it has no .get.
NotAProduct == [isdict |-> FALSE, title |-> Null, price |-> Null]

ProductElems ==
  [isdict : {TRUE}, title : Titles, price : Prices] \cup {NotAProduct}

SaleElems ==
  [isdict : {TRUE}, Product : Products, Quantity : Quantities] \cup {NoSale}

SeqsUpTo(S, n) == UNION {[1..k -> S] : k \in 0..n}

\* What load_json_file returns: a parsed document, or None. JSON null parses
\* to None as well. "scalar" is a parsed value that cannot be iterated.
None == [t |-> "none", items |-> <<>>]
Scalar == [t |-> "scalar", items |-> <<>>]
Array(items) == [t |-> "array", items |-> items]

\* A file as open() and json.load find it.
File(state, doc) == [state |-> state, doc |-> doc]

FailStates == {"missing", "badjson", "oserror", "undecodable"}

\* The elements the input files of a run of main are made of: one value of
\* each kind the code tells apart.
FileProductElems ==
  {e \in ProductElems :
     /\ e.title \in {Null, Str(<<"A">>), List}
     /\ e.price \in {Null, Num(2), Str(<<"x">>)}}

FileSaleElems ==
  {e \in SaleElems :
     /\ e.Product \in {Null, Str(<<"A">>), List}
     /\ e.Quantity \in {Null, Num(2), Str(<<"a">>), List}}

PriceFiles ==
  {File(st, None) : st \in FailStates}
    \cup {File("ok", d) :
            d \in {None, Scalar}
                    \cup {Array(a) : a \in SeqsUpTo(FileProductElems, MaxFileItems)}}

SalesFiles ==
  {File(st, None) : st \in FailStates}
    \cup {File("ok", d) :
            d \in {None, Scalar}
                    \cup {Array(a) : a \in SeqsUpTo(FileSaleElems, MaxFileItems)}}

-----------------------------------------------------------------------------
\* load_json_file

load_json_file(file) ==
  CASE file.state = "ok" -> [ret |-> file.doc, out |-> <<>>, exc |-> "none"]
    [] file.state = "missing" ->
         [ret |-> None, out |-> <<Msg("not_found", NoSale)>>, exc |-> "none"]
    [] file.state = "badjson" ->
         [ret |-> None, out |-> <<Msg("invalid_json", NoSale)>>, exc |-> "none"]
    [] file.state = "oserror" ->
         [ret |-> None, out |-> <<Msg("read_error", NoSale)>>, exc |-> "none"]
    [] file.state = "undecodable" ->
         [ret |-> None, out |-> <<>>, exc |-> "UnicodeDecodeError"]

-----------------------------------------------------------------------------
\* create_price_catalogue

\* catalogue[title] = price
SetItem(catalogue, title, price) ==
  [k \in DOMAIN catalogue \cup {title} |->
     IF k = title THEN price ELSE catalogue[k]]

\* Mutant of Keeps: `if title and price`.
Keeps_TruthyPrice(title, price) == Truthy(title) /\ Truthy(price)

\* line 48: `if title and price is not None`
Keeps(title, price) == Truthy(title) /\ price # Null

\* One iteration of the loop over product_list.
CatalogueStep(catalogue, product) ==
  IF ~product.isdict THEN [cat |-> catalogue, exc |-> "AttributeError"]
  ELSE IF Keeps(product.title, product.price)
    THEN IF Hashable(product.title)
           THEN [cat |-> SetItem(catalogue, product.title, product.price),
                 exc |-> "none"]
           ELSE [cat |-> catalogue, exc |-> "TypeError"]
    ELSE [cat |-> catalogue, exc |-> "none"]

RECURSIVE CatalogueLoop(_, _)
CatalogueLoop(state, items) ==
  IF items = <<>> \/ state.exc # "none" THEN state
  ELSE CatalogueLoop(CatalogueStep(state.cat, Head(items)), Tail(items))

create_price_catalogue(product_list) ==
  IF product_list.t # "array" THEN [cat |-> <<>>, exc |-> "TypeError"]
  ELSE CatalogueLoop([cat |-> <<>>, exc |-> "none"], product_list.items)

-----------------------------------------------------------------------------
\* compute_total_sales

\* Mutant of Incomplete: `if not product_name or not quantity`.
Incomplete_FalsyQuantity(product_name, quantity) ==
  ~Truthy(product_name) \/ ~Truthy(quantity)

\* Mutant of Accumulate: `total_cost = cost`.
Accumulate_Overwrite(total, cost) == cost

\* Mutant of MissingLines: the else branch prints nothing.
MissingLines_Silent(sale) == <<>>

\* line 66: `if not product_name or quantity is None`
Incomplete(product_name, quantity) == ~Truthy(product_name) \/ quantity = Null

\* line 86: `total_cost += cost`
Accumulate(total, cost) == total + cost

\* lines 88-92: the lines printed for a product that is not in the catalogue
MissingLines(sale) == <<Msg("warning_missing", sale)>>

\* One iteration of the loop over sales_record: the new total, the lines
\* printed, the exception raised.
SaleStep(price_catalogue, total, sale) ==
  IF ~sale.isdict THEN [total |-> total, out |-> <<>>, exc |-> "AttributeError"]
  ELSE IF Incomplete(sale.Product, sale.Quantity)
    THEN [total |-> total, out |-> <<Msg("data_error_record", sale)>>,
          exc |-> "none"]
  ELSE LET quantity == Float(sale.Quantity) IN
    IF quantity.exc = "ValueError"
      THEN [total |-> total, out |-> <<Msg("data_error_quantity", sale)>>,
            exc |-> "none"]
    ELSE IF quantity.exc # "none"
      THEN [total |-> total, out |-> <<>>, exc |-> quantity.exc]
    ELSE IF ~Hashable(sale.Product)
      THEN [total |-> total, out |-> <<>>, exc |-> "TypeError"]
    ELSE IF sale.Product \in DOMAIN price_catalogue
      THEN LET cost == Multiply(price_catalogue[sale.Product], quantity.val) IN
        IF cost.exc # "none"
          THEN [total |-> total, out |-> <<>>, exc |-> cost.exc]
          ELSE [total |-> Accumulate(total, cost.val), out |-> <<>>,
                exc |-> "none"]
    ELSE [total |-> total, out |-> MissingLines(sale), exc |-> "none"]

RECURSIVE SalesLoop(_, _, _)
SalesLoop(price_catalogue, state, items) ==
  IF items = <<>> \/ state.exc # "none" THEN state
  ELSE LET r == SaleStep(price_catalogue, state.total, Head(items)) IN
    SalesLoop(price_catalogue,
              [total |-> r.total, out |-> state.out \o r.out, exc |-> r.exc],
              Tail(items))

compute_total_sales(price_catalogue, sales_record) ==
  IF sales_record.t # "array" THEN [total |-> 0, out |-> <<>>, exc |-> "TypeError"]
  ELSE SalesLoop(price_catalogue, [total |-> 0, out |-> <<>>, exc |-> "none"],
                 sales_record.items)

-----------------------------------------------------------------------------
\* The program state

VARIABLES
  pc,               \* position in main, or in the function under study
  argc,             \* len(sys.argv)
  price_load,       \* what open/json.load found for sys.argv[1] ("unread" before)
  sales_load,       \* the same for sys.argv[2]
  product_list,     \* main's local
  sales_record,     \* main's local
  price_catalogue,  \* main's local; create_price_catalogue's catalogue
  total_cost,       \* main's local; compute_total_sales' total_cost
  results_str,      \* main's local
  stdout,           \* the lines printed so far
  results_file,     \* SalesResults.txt: whether it exists, and its content
  events,           \* calls and file opens made so far, in order
  exit_code,        \* the process exit status, -1 while it runs
  exc,              \* the exception that escaped, "none" if none
  idx               \* the loop position of the function under study

vars ==
  <<pc, argc, price_load, sales_load, product_list, sales_record,
    price_catalogue, total_cost, results_str, stdout, results_file, events,
    exit_code, exc, idx>>

ArgCounts == 1..4

Elapsed == {0, 1}

Absent == [exists |-> FALSE, content |-> <<>>]

Existing == [exists |-> TRUE, content |-> <<OldText>>]

InitialFiles == {Absent, Existing}

Locals0 ==
  /\ price_load = "unread"
  /\ sales_load = "unread"
  /\ total_cost = 0
  /\ results_str = NoText
  /\ stdout = <<>>
  /\ events = <<>>
  /\ exit_code = -1
  /\ exc = "none"
  /\ idx = 0

Init ==
  /\ pc = "start"
  /\ argc \in ArgCounts
  /\ results_file \in InitialFiles
  /\ product_list = None
  /\ sales_record = None
  /\ price_catalogue = <<>>
  /\ Locals0

\* An exception nobody catches: traceback, exit status 1.
Escape(e) ==
  /\ pc' = "exited"
  /\ exc' = e
  /\ exit_code' = 1

\* sys.exit(code)
SysExit(code) ==
  /\ pc' = "exited"
  /\ exit_code' = code
  /\ UNCHANGED exc

\* Mutant of WrongArgCount: `if len(sys.argv) < 3`.
WrongArgCount_TooFew(n) == n < 3

\* Mutant of LoadFailed: `and` for `or`.
LoadFailed_Both(products, sales) == products = None /\ sales = None

\* line 102: `if len(sys.argv) != 3`
WrongArgCount(n) == n # 3

\* line 118: `if product_list is None or sales_record is None`
LoadFailed(products, sales) == products = None \/ sales = None

\* main, lines 102-107
CheckArgs ==
  /\ pc = "start"
  /\ IF WrongArgCount(argc)
       THEN /\ stdout' = Append(stdout, Msg("usage", NoSale))
            /\ SysExit(1)
       ELSE /\ pc' = "load_price"
            /\ UNCHANGED <<stdout, exit_code, exc>>
  /\ UNCHANGED <<argc, price_load, sales_load, product_list, sales_record,
                 price_catalogue, total_cost, results_str, results_file,
                 events, idx>>

\* main, line 115
LoadPrice ==
  /\ pc = "load_price"
  /\ \E file \in PriceFiles :
       LET r == load_json_file(file) IN
         /\ price_load' = file.state
         /\ events' = Append(events, "open_price")
         /\ stdout' = stdout \o r.out
         /\ IF r.exc # "none"
              THEN Escape(r.exc) /\ UNCHANGED product_list
              ELSE /\ product_list' = r.ret
                   /\ pc' = "load_sales"
                   /\ UNCHANGED <<exit_code, exc>>
  /\ UNCHANGED <<argc, sales_load, sales_record, price_catalogue, total_cost,
                 results_str, results_file, idx>>

\* main, line 116
LoadSales ==
  /\ pc = "load_sales"
  /\ \E file \in SalesFiles :
       LET r == load_json_file(file) IN
         /\ sales_load' = file.state
         /\ events' = Append(events, "open_sales")
         /\ stdout' = stdout \o r.out
         /\ IF r.exc # "none"
              THEN Escape(r.exc) /\ UNCHANGED sales_record
              ELSE /\ sales_record' = r.ret
                   /\ pc' = "check_loaded"
                   /\ UNCHANGED <<exit_code, exc>>
  /\ UNCHANGED <<argc, price_load, product_list, price_catalogue, total_cost,
                 results_str, results_file, idx>>

\* main, lines 118-119
CheckLoaded ==
  /\ pc = "check_loaded"
  /\ IF LoadFailed(product_list, sales_record)
       THEN SysExit(1)
       ELSE pc' = "build" /\ UNCHANGED <<exit_code, exc>>
  /\ UNCHANGED <<argc, price_load, sales_load, product_list, sales_record,
                 price_catalogue, total_cost, results_str, stdout,
                 results_file, events, idx>>

\* main, line 122
BuildCatalogue ==
  /\ pc = "build"
  /\ LET r == create_price_catalogue(product_list) IN
       /\ events' = Append(events, "build")
       /\ IF r.exc # "none"
            THEN Escape(r.exc) /\ UNCHANGED price_catalogue
            ELSE /\ price_catalogue' = r.cat
                 /\ pc' = "compute"
                 /\ UNCHANGED <<exit_code, exc>>
  /\ UNCHANGED <<argc, price_load, sales_load, product_list, sales_record,
                 total_cost, results_str, stdout, results_file, idx>>

\* main, line 123
ComputeTotal ==
  /\ pc = "compute"
  /\ LET r == compute_total_sales(price_catalogue, sales_record) IN
       /\ events' = Append(events, "aggregate")
       /\ stdout' = stdout \o r.out
       /\ IF r.exc # "none"
            THEN Escape(r.exc) /\ UNCHANGED total_cost
            ELSE /\ total_cost' = r.total
                 /\ pc' = "print"
                 /\ UNCHANGED <<exit_code, exc>>
  /\ UNCHANGED <<argc, price_load, sales_load, product_list, sales_record,
                 price_catalogue, results_str, results_file, idx>>

\* main, lines 125-137
PrintReport ==
  /\ pc = "print"
  /\ \E elapsed_time \in Elapsed :
       /\ results_str' = Report(total_cost, elapsed_time)
       /\ stdout' = Append(stdout, ReportMsg(results_str'))
  /\ events' = Append(events, "print_report")
  /\ pc' = "write"
  /\ UNCHANGED <<argc, price_load, sales_load, product_list, sales_record,
                 price_catalogue, total_cost, results_file, exit_code, exc, idx>>

\* open("SalesResults.txt", "w") creates or truncates the file.
Truncated == [exists |-> TRUE, content |-> <<>>]

\* Mutant of Written: the file is opened in mode "a".
Written_Append(before, text) ==
  [exists |-> TRUE, content |-> Append(before.content, text)]

\* The file after a successful open in mode "w" and write.
Written(before, text) == [exists |-> TRUE, content |-> <<text>>]

\* main, lines 140-147, and the return to the interpreter
WriteResults ==
  /\ pc = "write"
  /\ events' = Append(events, "open_results")
  /\ \E outcome \in {"written", "open_failed", "write_failed"} :
       /\ results_file' =
            CASE outcome = "written" -> Written(results_file, results_str)
              [] outcome = "open_failed" -> results_file
              [] outcome = "write_failed" -> Truncated
       /\ stdout' =
            IF outcome = "written" THEN stdout
            ELSE Append(stdout, Msg("write_error", NoSale))
  /\ SysExit(0)
  /\ UNCHANGED <<argc, price_load, sales_load, product_list, sales_record,
                 price_catalogue, total_cost, results_str, idx>>

Next ==
  \/ CheckArgs
  \/ LoadPrice
  \/ LoadSales
  \/ CheckLoaded
  \/ BuildCatalogue
  \/ ComputeTotal
  \/ PrintReport
  \/ WriteResults

Spec == Init /\ [][Next]_vars

-----------------------------------------------------------------------------
\* create_price_catalogue, one loop iteration per step

Raised(e) ==
  /\ pc' = "raised"
  /\ exc' = e

\* The product lists create_price_catalogue is run on.
ProductLists ==
  {Scalar} \cup {Array(a) : a \in SeqsUpTo(ProductElems, MaxProducts)}

InitCatalogue ==
  /\ pc = "cat_enter"
  /\ argc = 3
  /\ results_file = Absent
  /\ product_list \in ProductLists
  /\ sales_record = None
  /\ price_catalogue = <<>>
  /\ Locals0

\* lines 44-45: catalogue = {}, and iter(product_list)
CatalogueEnter ==
  /\ pc = "cat_enter"
  /\ price_catalogue' = <<>>
  /\ IF product_list.t # "array"
       THEN Raised("TypeError") /\ UNCHANGED idx
       ELSE pc' = "cat_loop" /\ idx' = 1 /\ UNCHANGED exc
  /\ UNCHANGED <<argc, price_load, sales_load, product_list, sales_record,
                 total_cost, results_str, stdout, results_file, events,
                 exit_code>>

\* lines 45-49: one product
CatalogueIter ==
  /\ pc = "cat_loop"
  /\ idx <= Len(product_list.items)
  /\ LET r == CatalogueStep(price_catalogue, product_list.items[idx]) IN
       IF r.exc # "none"
         THEN Raised(r.exc) /\ UNCHANGED <<price_catalogue, idx>>
         ELSE /\ price_catalogue' = r.cat
              /\ idx' = idx + 1
              /\ UNCHANGED <<pc, exc>>
  /\ UNCHANGED <<argc, price_load, sales_load, product_list, sales_record,
                 total_cost, results_str, stdout, results_file, events,
                 exit_code>>

\* line 50
CatalogueReturn ==
  /\ pc = "cat_loop"
  /\ idx > Len(product_list.items)
  /\ pc' = "cat_done"
  /\ UNCHANGED <<argc, price_load, sales_load, product_list, sales_record,
                 price_catalogue, total_cost, results_str, stdout,
                 results_file, events, exit_code, exc, idx>>

NextCatalogue ==
  \/ CatalogueEnter
  \/ CatalogueIter
  \/ CatalogueReturn

SpecCatalogue == InitCatalogue /\ [][NextCatalogue]_vars

-----------------------------------------------------------------------------
\* compute_total_sales, one loop iteration per step

Product(title, price) == [isdict |-> TRUE, title |-> title, price |-> price]

\* The product lists whose catalogues compute_total_sales is run on.
CatalogueSources ==
  { <<>>,
    <<Product(Str(<<"A">>), Num(2))>>,
    <<Product(Str(<<"A">>), Num(0)), Product(Str(<<"B">>), Num(2))>>,
    <<Product(Str(<<"A">>), Str(<<"x">>))>> }

SalesLists ==
  {Scalar} \cup {Array(a) : a \in SeqsUpTo(SaleElems, MaxSales)}

InitSales ==
  /\ pc = "sales_enter"
  /\ argc = 3
  /\ results_file = Absent
  /\ product_list \in {Array(a) : a \in CatalogueSources}
  /\ price_catalogue = create_price_catalogue(product_list).cat
  /\ sales_record \in SalesLists
  /\ Locals0

\* lines 59-61: total_cost = 0.0, and iter(sales_record)
SalesEnter ==
  /\ pc = "sales_enter"
  /\ total_cost' = 0
  /\ IF sales_record.t # "array"
       THEN Raised("TypeError") /\ UNCHANGED idx
       ELSE pc' = "sales_loop" /\ idx' = 1 /\ UNCHANGED exc
  /\ UNCHANGED <<argc, price_load, sales_load, product_list, sales_record,
                 price_catalogue, results_str, stdout, results_file, events,
                 exit_code>>

\* lines 61-92: one sale
SalesIter ==
  /\ pc = "sales_loop"
  /\ idx <= Len(sales_record.items)
  /\ LET r == SaleStep(price_catalogue, total_cost, sales_record.items[idx]) IN
       /\ stdout' = stdout \o r.out
       /\ IF r.exc # "none"
            THEN Raised(r.exc) /\ UNCHANGED <<total_cost, idx>>
            ELSE /\ total_cost' = r.total
                 /\ idx' = idx + 1
                 /\ UNCHANGED <<pc, exc>>
  /\ UNCHANGED <<argc, price_load, sales_load, product_list, sales_record,
                 price_catalogue, results_str, results_file, events,
                 exit_code>>

\* line 94
SalesReturn ==
  /\ pc = "sales_loop"
  /\ idx > Len(sales_record.items)
  /\ pc' = "sales_done"
  /\ UNCHANGED <<argc, price_load, sales_load, product_list, sales_record,
                 price_catalogue, total_cost, results_str, stdout,
                 results_file, events, exit_code, exc, idx>>

NextSales ==
  \/ SalesEnter
  \/ SalesIter
  \/ SalesReturn

SpecSales == InitSales /\ [][NextSales]_vars

-----------------------------------------------------------------------------
\* The documented data model (section 3): what a product record, a sale
\* record and a catalogue hold when the input files have the documented
\* format. A field may be absent.

ProductInModel(product) ==
  /\ product.isdict
  /\ product.title.t \in {"null", "str"}
  /\ product.price.t \in {"null", "num"}

SaleInModel(sale) ==
  /\ sale.isdict
  /\ sale.Product.t \in {"null", "str"}
  /\ sale.Quantity.t \in {"null", "num", "str"}

CatalogueInModel(catalogue) ==
  \A k \in DOMAIN catalogue : k.t = "str" /\ catalogue[k].t = "num"

ProductsInModel(doc) ==
  /\ doc.t = "array"
  /\ \A i \in 1..Len(doc.items) : ProductInModel(doc.items[i])

SalesInModel(doc) ==
  /\ doc.t = "array"
  /\ \A i \in 1..Len(doc.items) : SaleInModel(doc.items[i])

\* The sale records compute_total_sales has dealt with so far.
Handled == SubSeq(sales_record.items, 1, idx - 1)

\* The sale record the next iteration deals with.
Current == sales_record.items[idx]

AtSale == pc = "sales_loop" /\ idx <= Len(sales_record.items)

Kinds(lines) == [i \in 1..Len(lines) |-> lines[i].kind]

-----------------------------------------------------------------------------
\* Claims about compute_total_sales (SpecSales)

\* A quantity that parses as a number: a number, or a string that float()
\* accepts.
ParsesAsNumber(quantity) ==
  \/ quantity.t = "num"
  \/ quantity.t = "str" /\ FloatOfString(quantity.s).exc = "none"

NumberOf(quantity) ==
  IF quantity.t = "num" THEN quantity.n ELSE FloatOfString(quantity.s).val

Matched(catalogue, sale) ==
  /\ sale.isdict
  /\ sale.Product \in DOMAIN catalogue
  /\ ParsesAsNumber(sale.Quantity)

RECURSIVE SumOfMatched(_, _)
SumOfMatched(catalogue, sales) ==
  IF sales = <<>> THEN 0
  ELSE SumOfMatched(catalogue, SubSeq(sales, 1, Len(sales) - 1))
         + (LET sale == sales[Len(sales)] IN
              IF Matched(catalogue, sale)
                THEN catalogue[sale.Product].n * NumberOf(sale.Quantity)
                ELSE 0)

Unmatched(catalogue, sales) ==
  LET Other(sale) == ~Matched(catalogue, sale) IN SelectSeq(sales, Other)

\* C1: the total compute_total_sales returns (and holds after each record) is
\* the sum of price x quantity over the records whose Product is a catalogue
\* key and whose Quantity parses as a number; each other record adds nothing
\* and gets a diagnostic line naming it; with inputs of the documented data
\* model the function always returns.
C1_TotalIsSumOfMatched ==
  /\ pc \in {"sales_loop", "sales_done"} =>
       /\ total_cost = SumOfMatched(price_catalogue, Handled)
       /\ [i \in 1..Len(stdout) |-> stdout[i].sale]
            = Unmatched(price_catalogue, Handled)
  /\ pc = "sales_done" => Handled = sales_record.items
  /\ pc = "raised" =>
       ~(/\ SalesInModel(sales_record)
         /\ CatalogueInModel(price_catalogue))

C1_Witness ==
  /\ pc = "sales_done"
  /\ Len(sales_record.items) = 2
  /\ total_cost = 4
  /\ Len(stdout) = 1

\* C6 as stated: every handled sale record that names a product absent from
\* the catalogue leaves the total alone and gets exactly one catalogue-miss
\* warning.
C6_Original ==
  [][(/\ AtSale
      /\ SaleInModel(Current)
      /\ Truthy(Current.Product)
      /\ Current.Product \notin DOMAIN price_catalogue)
       => /\ total_cost' = total_cost
          /\ stdout' = Append(stdout, Msg("warning_missing", Current))]_vars

\* C6 as amended: a sale record of the data model whose Product is absent from
\* the catalogue adds 0 and gets exactly one line: the malformed-record data
\* error when Product is falsy or Quantity is null, else the invalid-quantity
\* data error when Quantity does not parse, and the catalogue-miss warning
\* only when Product is a non-empty string and Quantity parses as a number.
C6_MissWarnsOnlyWhenQuantityParses ==
  [][(/\ AtSale
      /\ SaleInModel(Current)
      /\ Current.Product \notin DOMAIN price_catalogue)
       => /\ total_cost' = total_cost
          /\ idx' = idx + 1
          /\ stdout' =
               Append(stdout,
                      Msg(IF ~Truthy(Current.Product) \/ Current.Quantity = Null
                            THEN "data_error_record"
                          ELSE IF ~ParsesAsNumber(Current.Quantity)
                            THEN "data_error_quantity"
                          ELSE "warning_missing",
                          Current))]_vars

C6_Witness ==
  /\ pc = "sales_loop"
  /\ idx = 2
  /\ Truthy(sales_record.items[1].Product)
  /\ ParsesAsNumber(sales_record.items[1].Quantity)
  /\ stdout = <<Msg("warning_missing", sales_record.items[1])>>

\* str(n) for an integer n
RECURSIVE DigitsOf(_)
DigitsOf(n) ==
  IF n < 10 THEN <<Digits[n + 1]>>
  ELSE Append(DigitsOf(n \div 10), Digits[(n % 10) + 1])

DecimalString(n) == IF n < 0 THEN <<"-">> \o DigitsOf(-n) ELSE DigitsOf(n)

Numbers == -20..20

\* C9: handling a sale record whose Quantity is the decimal string of a
\* number changes the total, prints and raises as handling the same record
\* with that number as Quantity does.
C9_NumericStringAsNumber ==
  [][(/\ AtSale
      /\ Current.isdict
      /\ Current.Quantity.t = "str"
      /\ \E n \in Numbers : Current.Quantity.s = DecimalString(n))
       => LET n == CHOOSE n \in Numbers : Current.Quantity.s = DecimalString(n)
              twin == [Current EXCEPT !.Quantity = Num(n)]
              r == SaleStep(price_catalogue, total_cost, twin)
          IN  /\ total_cost' = r.total
              /\ Kinds(SubSeq(stdout', Len(stdout) + 1, Len(stdout')))
                   = Kinds(r.out)
              /\ exc' = r.exc]_vars

C9_Witness ==
  /\ pc = "sales_loop"
  /\ idx = 3
  /\ sales_record.items[1].Quantity = Num(2)
  /\ sales_record.items[2].Quantity = Str(<<"2">>)
  /\ sales_record.items[1].Product = sales_record.items[2].Product
  /\ total_cost = 8
  /\ stdout = <<>>

\* C10: the sale records are handled in input order, each with exactly one
\* outcome: (1) Product falsy or Quantity null: the malformed-record data
\* error; (2) else Quantity that does not parse: the invalid-quantity data
\* error; (3) else Product not in the catalogue: the warning; (4) else
\* price x quantity is added and nothing is printed. The catalogue is never
\* changed. Only a record or catalogue outside the documented data model can
\* end the loop with an exception instead.
C10_OneOutcomePerRecord ==
  [][AtSale =>
       \/ /\ pc' = "raised"
          /\ ~(SaleInModel(Current) /\ CatalogueInModel(price_catalogue))
          /\ UNCHANGED <<total_cost, stdout, price_catalogue, idx>>
       \/ /\ idx' = idx + 1
          /\ pc' = pc
          /\ price_catalogue' = price_catalogue
          /\ IF ~Truthy(Current.Product) \/ Current.Quantity = Null
               THEN /\ stdout' = Append(stdout, Msg("data_error_record", Current))
                    /\ total_cost' = total_cost
             ELSE IF ~ParsesAsNumber(Current.Quantity)
               THEN /\ stdout' = Append(stdout, Msg("data_error_quantity", Current))
                    /\ total_cost' = total_cost
             ELSE IF Current.Product \notin DOMAIN price_catalogue
               THEN /\ stdout' = Append(stdout, Msg("warning_missing", Current))
                    /\ total_cost' = total_cost
             ELSE /\ stdout' = stdout
                  /\ total_cost' = total_cost
                       + price_catalogue[Current.Product].n
                           * NumberOf(Current.Quantity)]_vars

C10_Witness ==
  /\ pc = "sales_done"
  /\ Kinds(stdout) = <<"data_error_quantity", "warning_missing">>

-----------------------------------------------------------------------------
\* Claims about create_price_catalogue (SpecCatalogue)

\* The positions of the elements that have the title, truthy, and a price.
Priced(products, title) ==
  {i \in 1..Len(products) :
     /\ products[i].isdict
     /\ products[i].title = title
     /\ Truthy(title)
     /\ products[i].price # Null}

Max(S) == CHOOSE i \in S : \A j \in S : j <= i

LastPriced(products) ==
  LET titles == {products[i].title : i \in 1..Len(products)}
  IN  [title \in {t \in titles : Priced(products, t) # {}} |->
         products[Max(Priced(products, title))].price]

\* C7: the catalogue create_price_catalogue returns (and holds after each
\* element) maps each title to the price of the last element with that
\* truthy title and a non-null price, a zero price included; the other
\* elements change nothing; with products of the documented data model the
\* function always returns.
C7_LastPricedTitleWins ==
  /\ pc \in {"cat_loop", "cat_done"} =>
       price_catalogue = LastPriced(SubSeq(product_list.items, 1, idx - 1))
  /\ pc = "cat_done" => idx = Len(product_list.items) + 1
  /\ pc = "raised" => ~ProductsInModel(product_list)

C7_Witness ==
  /\ pc = "cat_done"
  /\ Len(product_list.items) = 2
  /\ product_list.items[1].price = Num(2)
  /\ product_list.items[2].title = product_list.items[1].title
  /\ DOMAIN price_catalogue = {Str(<<"A">>)}
  /\ price_catalogue[Str(<<"A">>)] = Num(0)

-----------------------------------------------------------------------------
\* Claims about main (Spec)

Count(lines, kind) == Cardinality({i \in 1..Len(lines) : lines[i].kind = kind})

Happened(event) == \E i \in 1..Len(events) : events[i] = event

\* load_json_file has returned None for the file.
ReturnedNone(load, doc) == load \notin {"unread", "undecodable"} /\ doc = None

\* C2 as stated: a run ends with exit code 1 exactly when the argument count
\* is wrong or an input file failed to load or parse, and with 0 otherwise.
C2_ExitOneOnlyOnBadArgsOrFailedLoad ==
  pc = "exited" =>
    /\ exit_code \in {0, 1}
    /\ exit_code = 1 <=>
         \/ argc # 3
         \/ price_load \in FailStates
         \/ sales_load \in FailStates

\* C3: once a load has returned None, the catalogue is not built, nothing is
\* aggregated, no report is printed, SalesResults.txt is not opened and keeps
\* what it had, and the run ends with exit code 1.
C3_FailedLoadStopsBeforeWork ==
  (\/ ReturnedNone(price_load, product_list)
   \/ ReturnedNone(sales_load, sales_record))
    => /\ pc \in {"load_sales", "check_loaded", "exited"}
       /\ \A i \in 1..Len(events) : events[i] \in {"open_price", "open_sales"}
       /\ price_catalogue = <<>>
       /\ Count(stdout, "report") = 0
       /\ results_file \in InitialFiles
       /\ pc = "exited" => exit_code = 1

C3_Witness ==
  /\ pc = "exited"
  /\ exc = "none"
  /\ price_load = "ok"
  /\ product_list.t = "array"
  /\ sales_load = "badjson"
  /\ results_file = Existing

\* C4: with a wrong argument count the run prints the usage line and ends
\* with exit code 1; no input file is opened and SalesResults.txt is neither
\* created nor changed.
C4_WrongArgCountDoesNoIO ==
  argc # 3 =>
    /\ pc \in {"start", "exited"}
    /\ events = <<>>
    /\ price_load = "unread" /\ sales_load = "unread"
    /\ results_file \in InitialFiles
    /\ pc = "exited" =>
         /\ exit_code = 1
         /\ exc = "none"
         /\ stdout = <<Msg("usage", NoSale)>>

C4_Witness ==
  /\ pc = "exited"
  /\ argc = 4
  /\ stdout = <<Msg("usage", NoSale)>>
  /\ results_file = Absent

\* C5 as stated, for input files that parse as JSON: no exception escapes.
C5_NoExceptionEscapes ==
  (price_load \in {"unread", "ok"} /\ sales_load \in {"unread", "ok"})
    => exc = "none"

\* C8: the report block is printed once, before SalesResults.txt is opened;
\* after the write attempt the run has exit code 0 and either the file holds
\* exactly the printed block or one write-error line follows the report; a
\* run whose input files hold arrays of records of the documented data model
\* does not end before the write attempt.
C8_ReportPrintedThenWritten ==
  /\ Count(stdout, "report") = (IF Happened("print_report") THEN 1 ELSE 0)
  /\ Happened("open_results") => Happened("print_report")
  /\ pc = "write" =>
       /\ stdout[Len(stdout)] = ReportMsg(results_str)
       /\ ~Happened("open_results")
       /\ results_file \in InitialFiles
  /\ (pc = "exited" /\ Happened("open_results")) =>
       /\ exit_code = 0
       /\ exc = "none"
       /\ IF Count(stdout, "write_error") = 0
            THEN /\ results_file = [exists |-> TRUE, content |-> <<results_str>>]
                 /\ stdout[Len(stdout)] = ReportMsg(results_str)
            ELSE /\ Count(stdout, "write_error") = 1
                 /\ stdout[Len(stdout)].kind = "write_error"
                 /\ stdout[Len(stdout) - 1] = ReportMsg(results_str)
  /\ (/\ pc = "exited"
      /\ argc = 3
      /\ price_load = "ok" /\ ProductsInModel(product_list)
      /\ sales_load = "ok" /\ SalesInModel(sales_record))
       => Happened("open_results")

C8_Witness ==
  /\ pc = "exited"
  /\ results_str.total = 4
  /\ results_file = [exists |-> TRUE, content |-> <<results_str>>]
  /\ Kinds(stdout) = <<"report">>

====
